---- MODULE Spec2Model ----
(***************************************************************************)
(* Cross-currency payment service: the payment store (app/repository.py),  *)
(* the retrying quote client (app/fx_client.py) and the two request        *)
(* handlers create_payment / get_payment (app/routers.py).                 *)
(*                                                                         *)
(* Handlers are coroutines on one event loop: a create_payment task can be *)
(* suspended only at the awaits inside get_quote (client.post and          *)
(* asyncio.sleep).  The model additionally exposes the point between the   *)
(* construction of the terminal record and repo.update, so that a reader   *)
(* may run while the handler's local object and the store differ.          *)
(***************************************************************************)
EXTENDS Integers, Sequences, FiniteSets, TLC

(* ------------------------------ bounds -------------------------------- *)
\* number of create_payment requests the service receives
MaxReqs == 2
\* size of the identifier universe uuid4 draws from
MaxIds == 3
\* largest wall-clock reading
MaxClock == 1
\* largest max_retries a stand-alone quote client is configured with
MaxN == 3
MaxThreads == 2

Reqs == 1..MaxReqs
Ids == 1..MaxIds
Times == 0..MaxClock

(* --------------------------- program constants ------------------------ *)
\* FXClient.max_retries default, used by the service's client (main.py:24)
DefaultMaxRetries == 3
\* asyncio.sleep(0.2 * (attempt + 1)): the base delay in tenths of a second
BaseDelay == 2
HTTP_200_OK == 200
HTTP_201_CREATED == 201
HTTP_404_NOT_FOUND == 404
HTTP_502_BAD_GATEWAY == 502

(* ----------------------------- values --------------------------------- *)
\* Optional[T]: None or a present value
None == << >>
Some(x) == << x >>
IsNone(o) == o = << >>
Val(o) == o[1]

\* Python floats: a number or NaN (every comparison with NaN is False)
Fl(n) == [nan |-> FALSE, v |-> n]
NaN == [nan |-> TRUE, v |-> 0]
FMul(a, b) == IF a.nan \/ b.nan THEN NaN ELSE Fl(a.v * b.v)
FLe(a, b) == ~a.nan /\ ~b.nan /\ a.v <= b.v
FGt(a, b) == ~a.nan /\ ~b.nan /\ a.v > b.v
FEq(a, b) == ~a.nan /\ ~b.nan /\ a.v = b.v

PENDING == "PENDING"
SUCCEEDED == "SUCCEEDED"
FAILED == "FAILED"

\* exceptions: class and str(exc)
Exc(cls, msg) == [cls |-> cls, msg |-> msg]
\* `except Exception` catches every class but the BaseException-only ones
IsException(exc) == exc.cls # "CancelledError"

Diagnostics == [fx_latency_ms |-> None, fx_error |-> None]

(* ------------------------- app/models.py ------------------------------ *)
\* CreatePaymentRequest bodies that pass the validators (non-empty text,
\* amount > 0)
Amounts == {Fl(2), Fl(3)}
Requests == [amount : Amounts, source_currency : {"USD"}, destination_currency : {"EUR"}]
ServiceRequests == [amount : {Fl(3)}, source_currency : {"USD"}, destination_currency : {"EUR"}]

\* a Payment built with its amounts at zero instead of absent
NewPayment_Zeroed(id, req, now) ==
    [id |-> id,
     amount |-> req.amount,
     source_currency |-> req.source_currency,
     destination_currency |-> req.destination_currency,
     status |-> PENDING,
     payout_amount |-> Some(Fl(0)),
     fx_rate |-> Some(Fl(0)),
     error_message |-> None,
     diagnostics |-> Diagnostics,
     created_at |-> now,
     updated_at |-> now,
     payout_currency |-> req.destination_currency]
\* routers.py 58-73: the Payment built in PENDING state
NewPayment(id, req, now) ==
    [id |-> id,
     amount |-> req.amount,
     source_currency |-> req.source_currency,
     destination_currency |-> req.destination_currency,
     status |-> PENDING,
     payout_amount |-> None,
     fx_rate |-> None,
     error_message |-> None,
     diagnostics |-> Diagnostics,
     created_at |-> now,
     updated_at |-> now,
     payout_currency |-> req.destination_currency]

(* ------------------------ app/repository.py --------------------------- *)
\* PaymentRecord(**payment.model_dump()): the stored copy, field by field,
\* the nested Diagnostics model dumped to a dict
PaymentRecord(p) ==
    [id |-> p.id,
     amount |-> p.amount,
     source_currency |-> p.source_currency,
     destination_currency |-> p.destination_currency,
     status |-> p.status,
     payout_amount |-> p.payout_amount,
     fx_rate |-> p.fx_rate,
     error_message |-> p.error_message,
     diagnostics |-> [fx_latency_ms |-> p.diagnostics.fx_latency_ms,
                      fx_error |-> p.diagnostics.fx_error],
     created_at |-> p.created_at,
     updated_at |-> p.updated_at,
     payout_currency |-> p.payout_currency]

\* Payment(**asdict(rec)): the record converted back to a Payment
ToPayment(rec) ==
    [id |-> rec.id,
     amount |-> rec.amount,
     source_currency |-> rec.source_currency,
     destination_currency |-> rec.destination_currency,
     status |-> rec.status,
     payout_amount |-> rec.payout_amount,
     fx_rate |-> rec.fx_rate,
     error_message |-> rec.error_message,
     diagnostics |-> [fx_latency_ms |-> rec.diagnostics.fx_latency_ms,
                      fx_error |-> rec.diagnostics.fx_error],
     created_at |-> rec.created_at,
     updated_at |-> rec.updated_at,
     payout_currency |-> rec.payout_currency]

PaymentNotFound(id) == Exc("PaymentNotFound", "payment not found")

\* a save that puts the record aside to be written later
save_Deferred(ps, p) == ps
\* a save that rebuilds the dictionary around the record saved
save_Clobber(ps, p) == (p.id :> PaymentRecord(p))
\* InMemoryPaymentRepository.save: insert or overwrite under payment.id
save(ps, p) == (p.id :> PaymentRecord(p)) @@ ps

\* an update that checks the identifier and leaves the write for later
update_Unwritten(ps, p) ==
    IF p.id \notin DOMAIN ps
    THEN [payments |-> ps, raised |-> Some(PaymentNotFound(p.id))]
    ELSE [payments |-> ps, raised |-> None]
\* an update that writes the status into the stored record in place
update_StatusOnly(ps, p) ==
    IF p.id \notin DOMAIN ps
    THEN [payments |-> ps, raised |-> Some(PaymentNotFound(p.id))]
    ELSE [payments |-> [ps EXCEPT ![p.id].status = p.status], raised |-> None]
\* an update that inserts the record when the identifier is unknown
update_Upsert(ps, p) ==
    [payments |-> (p.id :> PaymentRecord(p)) @@ ps,
     raised |-> IF p.id \notin DOMAIN ps THEN Some(PaymentNotFound(p.id)) ELSE None]
\* InMemoryPaymentRepository.update: replace, or raise PaymentNotFound
update(ps, p) ==
    IF p.id \notin DOMAIN ps
    THEN [payments |-> ps, raised |-> Some(PaymentNotFound(p.id))]
    ELSE [payments |-> (p.id :> PaymentRecord(p)) @@ ps, raised |-> None]

\* InMemoryPaymentRepository.get: the Payment stored under payment_id, or
\* raise PaymentNotFound
get(ps, payment_id) ==
    IF payment_id \notin DOMAIN ps
    THEN [value |-> None, raised |-> Some(PaymentNotFound(payment_id))]
    ELSE [value |-> Some(ToPayment(ps[payment_id])), raised |-> None]

\* a save that keeps the caller's Diagnostics object inside the record
AfterLocalWrite_SharedDiagnostics(ps, p) ==
    IF p.id \in DOMAIN ps THEN [ps EXCEPT ![p.id].diagnostics = p.diagnostics] ELSE ps
\* repository.py 51, 60: the record is built from payment.model_dump(), new
\* objects all the way down, so the store after the caller has written to
\* its own payment p is the store as it was
AfterLocalWrite(ps, p) == ps

\* repository.py 70: get builds the Payment from asdict(rec), a deep copy,
\* so the store after the caller has written to the returned payment p is
\* the store as it was
AfterCallerWrite(ps, p) == ps

\* threading.RLock: free, or owned by one thread to some depth
Free == [owner |-> 0, count |-> 0]
\* RLock.acquire blocks unless the lock is free or owned by the caller
CanAcquire(l, th) == l.owner \in {0, th}
acquire(l, th) == [owner |-> th, count |-> l.count + 1]
release(l, th) == IF l.count = 1 THEN Free ELSE [l EXCEPT !.count = @ - 1]
\* a lock given back only when the block ends without raising
Exit_KeptOnRaise(l, th, raised) == IF IsNone(raised) THEN release(l, th) ELSE l
\* leaving `with self._lock:`, by running off its end or by raising
Exit(l, th, raised) == release(l, th)

(* ------------------------- app/fx_client.py --------------------------- *)
\* what the upstream does on one client.post: the transport raises, or a
\* response arrives after `latency` ms with a status and a body
Latencies == {4, 9}
TransportErrors == {Exc("ReadTimeout", ""), Exc("ConnectError", "All connection attempts failed")}
\* bodies: not JSON; JSON without exchange_rate; JSON with exchange_rate
Rates == {Fl(-1), Fl(0), Fl(2), NaN}
Bodies == {[json |-> FALSE, has_rate |-> FALSE, exchange_rate |-> Fl(0)],
           [json |-> TRUE, has_rate |-> FALSE, exchange_rate |-> Fl(0)]}
          \cup {[json |-> TRUE, has_rate |-> TRUE, exchange_rate |-> x] : x \in Rates}
NoBody == [json |-> FALSE, has_rate |-> FALSE, exchange_rate |-> Fl(0)]
NoExc == Exc("", "")
Raises(e) == [kind |-> "raise", exc |-> e, status_code |-> 0, body |-> NoBody, latency |-> 0]
Responds(s, b, l) == [kind |-> "response", exc |-> NoExc, status_code |-> s, body |-> b, latency |-> l]
Outcomes ==
    {Raises(e) : e \in TransportErrors}
    \cup {Responds(503, NoBody, l) : l \in Latencies}
    \cup {Responds(HTTP_200_OK, b, l) : b \in Bodies, l \in Latencies}
\* the upstream behaviours the concurrent runs draw from: a timeout whose
\* str() is empty, a bad status, a quote, and a quote whose rate is NaN
ServiceOutcomes ==
    {Raises(Exc("ReadTimeout", "")),
     Responds(503, NoBody, 4),
     Responds(HTTP_200_OK, [json |-> TRUE, has_rate |-> TRUE, exchange_rate |-> Fl(2)], 9),
     Responds(HTTP_200_OK, [json |-> TRUE, has_rate |-> TRUE, exchange_rate |-> NaN], 9)}

\* str() of the floats and status codes the model uses
FloatStr(x) ==
    IF x.nan THEN "nan"
    ELSE CASE x.v = 0 -> "0.0" [] x.v = -1 -> "-1.0" [] x.v = 2 -> "2.0" [] OTHER -> "?"
StatusStr(s) == CASE s = 503 -> "503" [] s = 200 -> "200" [] OTHER -> "?"

\* currency codes a caller of get_quote may pass
Codes == {"", "USD", "EUR"}
\* a check of the source code only
ArgsOk_SourceOnly(source_currency, dest_currency) == source_currency # ""
\* fx_client.py 30: both codes must be non-empty
ArgsOk(source_currency, dest_currency) == source_currency # "" /\ dest_currency # ""

\* fx_client.py 44-68: one pass through the try block.  Yields the locals
\* after it and, when the attempt succeeded, the value returned
TryAttempt(o, last_exc, latency_ms) ==
    IF o.kind = "raise"
    THEN [ret |-> None, last_exc |-> Some(o.exc), latency_ms |-> latency_ms]
    ELSE IF o.status_code # HTTP_200_OK
    THEN [ret |-> None,
          last_exc |-> Some(Exc("RuntimeError",
                       "FX service returned status " \o StatusStr(o.status_code))),
          latency_ms |-> o.latency]
    ELSE IF ~o.body.json
    THEN [ret |-> None, last_exc |-> Some(Exc("JSONDecodeError", "Expecting value")),
          latency_ms |-> o.latency]
    ELSE LET rate == IF o.body.has_rate THEN o.body.exchange_rate ELSE Fl(0)
         IN  IF FLe(rate, Fl(0))
             THEN [ret |-> None,
                   last_exc |-> Some(Exc("RuntimeError",
                                "Invalid exchange rate from FX: " \o FloatStr(rate))),
                   latency_ms |-> o.latency]
             ELSE [ret |-> Some([rate |-> rate, latency_ms |-> o.latency]),
                   last_exc |-> last_exc, latency_ms |-> o.latency]

\* a range(max_retries) loop that let every attempt plus one more run
HasNextAttempt_OffByOne(attempt, n) == attempt + 1 <= n
\* fx_client.py 43: for attempt in range(max_retries)
HasNextAttempt(attempt, n) == attempt + 1 < n

\* fx_client.py 71: a backoff follows every attempt but the last
SleepsAfter(attempt, n) == attempt < n - 1
\* a backoff computed from the zero-based loop index
Backoff_ZeroBased(attempt) == BaseDelay * attempt
\* fx_client.py 72: its length, in tenths of a second
Backoff(attempt) == BaseDelay * (attempt + 1)

(* -------------------------- app/routers.py ---------------------------- *)
\* routers.py 83-88: the terminal record of a quoted payment
Succeed(p, rate, latency, now) ==
    [p EXCEPT !.diagnostics.fx_latency_ms = Some(latency),
              !.fx_rate = Some(rate),
              !.payout_amount = Some(FMul(p.amount, rate)),
              !.status = SUCCEEDED,
              !.updated_at = now]

\* a failure record that carries the HTTP detail instead of str(exc)
Fail_DetailAsMessage(p, exc, now) ==
    [p EXCEPT !.diagnostics.fx_error = Some(exc.msg),
              !.error_message = Some("Failed to obtain FX rate"),
              !.status = FAILED,
              !.updated_at = now]
\* a failure record that stores an empty str(exc) as no message
Fail_EmptyAsNone(p, exc, now) ==
    [p EXCEPT !.diagnostics.fx_error = Some(exc.msg),
              !.error_message = IF exc.msg = "" THEN None ELSE Some(exc.msg),
              !.status = FAILED,
              !.updated_at = now]
\* routers.py 91-95: the terminal record of a payment whose quote failed
Fail(p, exc, now) ==
    [p EXCEPT !.diagnostics.fx_error = Some(exc.msg),
              !.error_message = Some(exc.msg),
              !.status = FAILED,
              !.updated_at = now]

\* responses handed to the routing layer
Created(p) == [status_code |-> HTTP_201_CREATED, detail |-> "", body |-> Some(p)]
Ok(p) == [status_code |-> HTTP_200_OK, detail |-> "", body |-> Some(p)]
BadGateway == [status_code |-> HTTP_502_BAD_GATEWAY, detail |-> "Failed to obtain FX rate", body |-> None]
NotFound == [status_code |-> HTTP_404_NOT_FOUND, detail |-> "Payment not found", body |-> None]

(* ------------------------------ state --------------------------------- *)
Threads == 1..MaxThreads

VARIABLES
    payments,      \* InMemoryPaymentRepository._payments: id -> PaymentRecord
    clock,         \* the wall clock read by datetime.now
    max_retries,   \* FXClient.max_retries of the process-wide client
    task,          \* per create_payment request: position and locals
    obs,           \* per request: what an observer of the run has seen
    resp,          \* the last answer of get_payment, with the id asked for
    call,          \* the last call made directly on the repository
    lock,          \* InMemoryPaymentRepository._lock: owner and depth
    thr,           \* per thread calling the repository: position and locals
    written        \* per identifier: the payment last written under it

vars == << payments, clock, max_retries, task, obs, resp, call, lock, thr, written >>

\* what the handlers of the service leave alone: each of their store calls
\* takes the lock and gives it back within the call
threads == << lock, thr, written >>

\* datetime.now(timezone.utc): a reading not before the previous one
Now(c) == c..MaxClock

\* an identifier drawn at random from a space small enough to collide
uuid4_Any(ps) == Ids
\* an identifier source that hands the same identifier out again
uuid4_Reuse(ps) == {id \in Ids : \A other \in Ids : id <= other}
\* str(uuid4()): an identifier never handed out before.  Identifiers are
\* opaque, so the fresh one is taken to be the least unused one
uuid4(ps) == {id \in Ids \ DOMAIN ps : \A other \in Ids \ DOMAIN ps : id <= other}

NoTask ==
    [pc |-> "start", payment |-> None, attempt |-> 0, last_exc |-> None,
     latency_ms |-> 0, sleep |-> 0, response |-> None,
     source_currency |-> "", dest_currency |-> ""]

NoObs ==
    [posts |-> 0, slept |-> 0, last |-> None, cause |-> None, allfail |-> TRUE,
     good |-> 0, good_rate |-> None,
     quote |-> "none", ret |-> None, raised |-> None, saved |-> None, updated |-> None]

NoResp == [id |-> 0, status_code |-> 0, detail |-> "", body |-> None]

NoCall == [op |-> "none", id |-> 0, raised |-> None, value |-> None]

NoThread == [pc |-> "idle", op |-> "none", id |-> 0, payment |-> None,
             raised |-> None, value |-> None]

Init ==
    /\ payments = << >>
    /\ clock = 0
    /\ max_retries = DefaultMaxRetries
    /\ task = [r \in Reqs |-> NoTask]
    /\ obs = [r \in Reqs |-> NoObs]
    /\ resp = NoResp
    /\ call = NoCall
    /\ lock = Free
    /\ thr = [th \in Threads |-> NoThread]
    /\ written = [id \in Ids |-> None]

\* an attempt that a correct client counts as a success: a response with
\* status 200, a JSON body and a rate that is a number above zero
GoodOutcome(o) ==
    /\ o.kind = "response"
    /\ o.status_code = HTTP_200_OK
    /\ o.body.json /\ o.body.has_rate
    /\ FGt(o.body.exchange_rate, Fl(0))

\* the ways an attempt fails that the design lists: transport error,
\* non-success status, unparseable body, missing or non-positive rate
ListedFailure(o) ==
    \/ o.kind = "raise"
    \/ o.status_code # HTTP_200_OK
    \/ ~o.body.json
    \/ ~o.body.has_rate
    \/ FLe(o.body.exchange_rate, Fl(0))

\* an exception leaves get_quote (or is thrown into the suspended task) and
\* reaches create_payment's `except Exception` (routers.py 90-95)
Propagate(t, exc, now) ==
    IF ~IsException(exc)
    THEN [t EXCEPT !.pc = "cancelled"]
    ELSE IF IsNone(t.payment)
    THEN [t EXCEPT !.pc = "quote_raised"]
    ELSE [t EXCEPT !.pc = "update_failed", !.payment = Some(Fail(Val(t.payment), exc, now))]

\* fx_client.py 66, routers.py 80-88: get_quote returns ret; its caller is
\* create_payment, which builds the terminal record, or a caller of the
\* client alone
Return(t, ret, now) ==
    IF IsNone(t.payment)
    THEN [t EXCEPT !.pc = "quote_returned"]
    ELSE [t EXCEPT !.pc = "update_ok",
                   !.payment = Some(Succeed(Val(t.payment), ret.rate, ret.latency_ms, now))]

\* the store after the task has written to its payment, if it has one
Seen(ps, t) == IF IsNone(t.payment) THEN ps ELSE AfterLocalWrite(ps, Val(t.payment))

(* ----------------------------- actions -------------------------------- *)
\* routers.py 55-76: build the PENDING payment and save it
CreatePayment(r, req) ==
    /\ task[r].pc = "start"
    /\ \E id \in uuid4(payments), now \in Now(clock) :
         LET p == NewPayment(id, req, now)
         IN  /\ clock' = now
             /\ payments' = save(payments, p)
             /\ task' = [task EXCEPT ![r].pc = "call", ![r].payment = Some(p),
                                     ![r].source_currency = p.source_currency,
                                     ![r].dest_currency = p.destination_currency]
             /\ obs' = [obs EXCEPT ![r].saved = Some(p)]
    /\ UNCHANGED << max_retries, resp, call >>
    /\ UNCHANGED threads

\* fx_client.py 24-29: get_quote is called on the client alone, with any
\* two strings as currency codes
GetQuote(r, source_currency, dest_currency) ==
    /\ task[r].pc = "start"
    /\ task' = [task EXCEPT ![r].pc = "call",
                            ![r].source_currency = source_currency,
                            ![r].dest_currency = dest_currency]
    /\ UNCHANGED << payments, clock, max_retries, obs, resp, call >>
    /\ UNCHANGED threads

\* routers.py 80, fx_client.py 30-50: enter get_quote, up to the first post
EnterQuote(r) ==
    /\ task[r].pc = "call"
    /\ LET t0 == [task[r] EXCEPT !.last_exc = None, !.latency_ms = 0, !.attempt = 0]
       IN  IF ~ArgsOk(task[r].source_currency, task[r].dest_currency)
           THEN \E now \in Now(clock) :
                  LET e == Exc("ValueError", "source_currency and dest_currency are required")
                  IN  /\ clock' = now
                      /\ task' = [task EXCEPT ![r] = Propagate(t0, e, now)]
                      /\ obs' = [obs EXCEPT ![r].quote = "raised", ![r].raised = Some(e)]
           ELSE IF max_retries <= 0
           THEN \E now \in Now(clock) :
                  LET e == Exc("AssertionError", "")
                  IN  /\ clock' = now
                      /\ task' = [task EXCEPT ![r] = Propagate(t0, e, now)]
                      /\ obs' = [obs EXCEPT ![r].quote = "raised", ![r].raised = Some(e)]
           ELSE /\ task' = [task EXCEPT ![r] = [t0 EXCEPT !.pc = "post"]]
                /\ obs' = [obs EXCEPT ![r].posts = 1, ![r].quote = "running"]
                /\ UNCHANGED clock
    /\ payments' = Seen(payments, task'[r])
    /\ UNCHANGED << max_retries, resp, call >>
    /\ UNCHANGED threads

\* fx_client.py 50-75, routers.py 83-88 / 90-95: the post completes with
\* outcome o; the task runs on to its next await or to repo.update
PostCompletes(r, o) ==
    /\ task[r].pc = "post"
    /\ LET t == task[r]
           a == TryAttempt(o, t.last_exc, t.latency_ms)
           t1 == [t EXCEPT !.last_exc = a.last_exc, !.latency_ms = a.latency_ms]
           seen == [obs[r] EXCEPT
                      !.last = Some(o),
                      !.cause = TryAttempt(o, None, 0).last_exc,
                      !.allfail = @ /\ ListedFailure(o),
                      !.good = IF @ = 0 /\ GoodOutcome(o) THEN obs[r].posts ELSE @,
                      !.good_rate = IF obs[r].good = 0 /\ GoodOutcome(o)
                                    THEN Some(o.body.exchange_rate) ELSE @]
       IN  IF ~IsNone(a.ret)
           THEN \E now \in Now(clock) :
                  /\ clock' = now
                  /\ task' = [task EXCEPT ![r] = Return(t1, Val(a.ret), now)]
                  /\ obs' = [obs EXCEPT ![r] = [seen EXCEPT !.quote = "returned", !.ret = a.ret]]
           ELSE IF SleepsAfter(t.attempt, max_retries)
           THEN /\ task' = [task EXCEPT ![r] = [t1 EXCEPT !.pc = "sleep", !.sleep = Backoff(t.attempt)]]
                /\ obs' = [obs EXCEPT ![r] = seen]
                /\ UNCHANGED clock
           ELSE IF HasNextAttempt(t.attempt, max_retries)
           THEN /\ task' = [task EXCEPT ![r] = [t1 EXCEPT !.attempt = @ + 1]]
                /\ obs' = [obs EXCEPT ![r] = [seen EXCEPT !.posts = @ + 1]]
                /\ UNCHANGED clock
           ELSE \E now \in Now(clock) :
                  /\ clock' = now
                  /\ task' = [task EXCEPT ![r] = Propagate(t1, Val(a.last_exc), now)]
                  /\ obs' = [obs EXCEPT ![r] = [seen EXCEPT !.quote = "raised", !.raised = a.last_exc]]
    /\ payments' = Seen(payments, task'[r])
    /\ UNCHANGED << max_retries, resp, call >>
    /\ UNCHANGED threads

\* fx_client.py 72, 43, 74-75: the backoff sleep ends; next attempt, or the
\* loop is over and last_exc is raised
Wake(r) ==
    /\ task[r].pc = "sleep"
    /\ LET t == task[r]
           woke == [obs[r] EXCEPT !.slept = @ + t.sleep]
       IN  IF HasNextAttempt(t.attempt, max_retries)
           THEN /\ task' = [task EXCEPT ![r] = [t EXCEPT !.pc = "post", !.attempt = @ + 1, !.sleep = 0]]
                /\ obs' = [obs EXCEPT ![r] = [woke EXCEPT !.posts = @ + 1]]
                /\ UNCHANGED clock
           ELSE \E now \in Now(clock) :
                  /\ clock' = now
                  /\ task' = [task EXCEPT ![r] = Propagate([t EXCEPT !.sleep = 0], Val(t.last_exc), now)]
                  /\ obs' = [obs EXCEPT ![r] = [woke EXCEPT !.quote = "raised", !.raised = t.last_exc]]
    /\ payments' = Seen(payments, task'[r])
    /\ UNCHANGED << max_retries, resp, call >>
    /\ UNCHANGED threads

\* the task is cancelled while suspended in client.post or asyncio.sleep:
\* CancelledError is raised at the await (fx_client.py 50, 72)
Cancel(r) ==
    /\ task[r].pc \in {"post", "sleep"}
    /\ \E now \in Now(clock) :
         LET e == Exc("CancelledError", "")
         IN  /\ clock' = IF IsException(e) THEN now ELSE clock
             /\ task' = [task EXCEPT ![r] = Propagate(task[r], e, now)]
    /\ obs' = [obs EXCEPT ![r].quote = "cancelled"]
    /\ payments' = Seen(payments, task'[r])
    /\ UNCHANGED << max_retries, resp, call >>
    /\ UNCHANGED threads

\* routers.py 89 / 96-103: repo.update with the terminal record, then the
\* answer to the caller
Update(r) ==
    /\ task[r].pc \in {"update_ok", "update_failed"}
    /\ LET t == task[r]
           p == Val(t.payment)
           u == update(payments, p)
       IN  IF IsNone(u.raised)
           THEN /\ payments' = u.payments
                /\ task' = [task EXCEPT ![r].pc = IF t.pc = "update_ok" THEN "returned" ELSE "raised",
                                        ![r].response = IF t.pc = "update_ok"
                                                        THEN Some(Created(p)) ELSE Some(BadGateway)]
                /\ obs' = [obs EXCEPT ![r].updated = Some(p)]
                /\ UNCHANGED clock
           ELSE IF t.pc = "update_ok"
           THEN \E now \in Now(clock) :
                  /\ clock' = now
                  /\ task' = [task EXCEPT ![r] = Propagate(t, Val(u.raised), now)]
                  /\ UNCHANGED << payments, obs >>
           ELSE /\ task' = [task EXCEPT ![r].pc = "crashed"]
                /\ UNCHANGED << payments, obs, clock >>
    /\ UNCHANGED << max_retries, resp, call >>
    /\ UNCHANGED threads

\* routers.py 111-123: look a payment up
GetPayment(payment_id) ==
    /\ LET g == get(payments, payment_id)
       IN  resp' = IF IsNone(g.raised)
                   THEN [id |-> payment_id] @@ Ok(Val(g.value))
                   ELSE [id |-> payment_id] @@ NotFound
    /\ UNCHANGED << payments, clock, max_retries, task, obs, call >>
    /\ UNCHANGED threads

Next ==
    \/ \E r \in Reqs, req \in ServiceRequests : CreatePayment(r, req)
    \/ \E r \in Reqs : EnterQuote(r)
    \/ \E r \in Reqs, o \in ServiceOutcomes : PostCompletes(r, o)
    \/ \E r \in Reqs : Wake(r)
    \/ \E r \in Reqs : Cancel(r)
    \/ \E r \in Reqs : Update(r)
    \/ \E id \in Ids : GetPayment(id)

Spec == Init /\ [][Next]_vars

\* the repository used directly, by any caller and with any payment
SamplePayments ==
    LET pending == {NewPayment(id, req, 0) : id \in Ids, req \in ServiceRequests}
    IN  pending
        \cup {Succeed(p, Fl(2), 9, 1) : p \in pending}
        \cup {Fail(p, Exc("ReadTimeout", ""), 1) : p \in pending}

\* repository.py 49-53
RepoSave(p) ==
    /\ payments' = save(payments, p)
    /\ call' = [op |-> "save", id |-> p.id, raised |-> None, value |-> None]
    /\ UNCHANGED << clock, max_retries, task, obs, resp >>
    /\ UNCHANGED threads

\* repository.py 56-60
RepoUpdate(p) ==
    /\ LET u == update(payments, p)
       IN  /\ payments' = u.payments
           /\ call' = [op |-> "update", id |-> p.id, raised |-> u.raised, value |-> None]
    /\ UNCHANGED << clock, max_retries, task, obs, resp >>
    /\ UNCHANGED threads

\* repository.py 63-70
RepoGet(payment_id) ==
    /\ LET g == get(payments, payment_id)
       IN  call' = [op |-> "get", id |-> payment_id, raised |-> g.raised, value |-> g.value]
    /\ UNCHANGED << payments, clock, max_retries, task, obs, resp >>
    /\ UNCHANGED threads

NextStore ==
    \/ \E p \in SamplePayments : RepoSave(p)
    \/ \E p \in SamplePayments : RepoUpdate(p)
    \/ \E id \in Ids : RepoGet(id)
    \/ \E id \in Ids : GetPayment(id)

StoreSpec == Init /\ [][NextStore]_vars

\* the repository called from several threads at once.  A call is three
\* steps: it is made, it gets the lock, it runs the block under the lock
\* and leaves it
ThreadPayments ==
    LET pending == {NewPayment(id, req, 0) : id \in Ids, req \in ServiceRequests}
    IN  pending \cup {Fail(p, Exc("ReadTimeout", ""), 1) : p \in pending}

service == << clock, max_retries, task, obs, resp, call >>

\* repository.py 49-51: save is called; the record is built before the lock
CallSave(th, p) ==
    /\ thr[th].pc \in {"idle", "done"}
    /\ thr' = [thr EXCEPT ![th] = [NoThread EXCEPT !.pc = "wait", !.op = "save",
                                                   !.id = p.id, !.payment = Some(p)]]
    /\ UNCHANGED << payments, lock, written >>
    /\ UNCHANGED service

\* repository.py 56: update is called
CallUpdate(th, p) ==
    /\ thr[th].pc \in {"idle", "done"}
    /\ thr' = [thr EXCEPT ![th] = [NoThread EXCEPT !.pc = "wait", !.op = "update",
                                                   !.id = p.id, !.payment = Some(p)]]
    /\ UNCHANGED << payments, lock, written >>
    /\ UNCHANGED service

\* repository.py 63: get is called
CallGet(th, payment_id) ==
    /\ thr[th].pc \in {"idle", "done"}
    /\ thr' = [thr EXCEPT ![th] = [NoThread EXCEPT !.pc = "wait", !.op = "get",
                                                   !.id = payment_id]]
    /\ UNCHANGED << payments, lock, written >>
    /\ UNCHANGED service

\* repository.py 52, 57, 64: `with self._lock:` is entered
Acquire(th) ==
    /\ thr[th].pc = "wait"
    /\ CanAcquire(lock, th)
    /\ lock' = acquire(lock, th)
    /\ thr' = [thr EXCEPT ![th].pc = "in"]
    /\ UNCHANGED << payments, written >>
    /\ UNCHANGED service

\* repository.py 53: the block of save, and its end
RunSave(th) ==
    /\ thr[th].pc = "in"
    /\ thr[th].op = "save"
    /\ payments' = save(payments, Val(thr[th].payment))
    /\ written' = [written EXCEPT ![thr[th].id] = thr[th].payment]
    /\ lock' = Exit(lock, th, None)
    /\ thr' = [thr EXCEPT ![th].pc = "done"]
    /\ UNCHANGED service

\* repository.py 58-60: the block of update, left by its end or by the raise
RunUpdate(th) ==
    /\ thr[th].pc = "in"
    /\ thr[th].op = "update"
    /\ LET u == update(payments, Val(thr[th].payment))
       IN  /\ payments' = u.payments
           /\ written' = IF IsNone(u.raised)
                         THEN [written EXCEPT ![thr[th].id] = thr[th].payment]
                         ELSE written
           /\ lock' = Exit(lock, th, u.raised)
           /\ thr' = [thr EXCEPT ![th].pc = "done", ![th].raised = u.raised]
    /\ UNCHANGED service

\* repository.py 65-70: the block of get, left by its end or by the raise;
\* the conversion to a Payment runs after the lock is given back
RunGet(th) ==
    /\ thr[th].pc = "in"
    /\ thr[th].op = "get"
    /\ LET g == get(payments, thr[th].id)
       IN  /\ lock' = Exit(lock, th, g.raised)
           /\ thr' = [thr EXCEPT ![th].pc = "done", ![th].raised = g.raised,
                                 ![th].value = g.value]
    /\ UNCHANGED << payments, written >>
    /\ UNCHANGED service

NextThreads ==
    \/ \E th \in Threads, p \in ThreadPayments : CallSave(th, p)
    \/ \E th \in Threads, p \in ThreadPayments : CallUpdate(th, p)
    \/ \E th \in Threads, id \in Ids : CallGet(th, id)
    \/ \E th \in Threads : Acquire(th)
    \/ \E th \in Threads : RunSave(th)
    \/ \E th \in Threads : RunUpdate(th)
    \/ \E th \in Threads : RunGet(th)

ThreadSpec == Init /\ [][NextThreads]_vars

\* repository.py 70: the caller of get writes to the payment it was handed
CallerEdits ==
    /\ call.op = "get"
    /\ ~IsNone(call.value)
    /\ LET p == [Val(call.value) EXCEPT !.status = FAILED,
                                        !.diagnostics.fx_error = Some("edited")]
       IN  /\ call' = [call EXCEPT !.op = "edited", !.value = Some(p)]
           /\ payments' = AfterCallerWrite(payments, p)
    /\ UNCHANGED << clock, max_retries, task, obs, resp >>
    /\ UNCHANGED threads

\* one request against a client configured with any max_retries in 1..MaxN
\* and an upstream that may do anything it can do
InitQuote ==
    /\ payments = << >>
    /\ clock = 0
    /\ max_retries \in 1..MaxN
    /\ task = [r \in Reqs |-> NoTask]
    /\ obs = [r \in Reqs |-> NoObs]
    /\ resp = NoResp
    /\ call = NoCall
    /\ lock = Free
    /\ thr = [th \in Threads |-> NoThread]
    /\ written = [id \in Ids |-> None]

NextQuote ==
    \/ \E req \in Requests : CreatePayment(1, req)
    \/ EnterQuote(1)
    \/ \E o \in Outcomes : PostCompletes(1, o)
    \/ Wake(1)
    \/ Cancel(1)
    \/ Update(1)
    \/ \E id \in Ids : GetPayment(id)

QuoteSpec == InitQuote /\ [][NextQuote]_vars

\* one request, with the repository read and the returned payment written
\* to by another caller meanwhile
NextCopy ==
    \/ \E req \in ServiceRequests : CreatePayment(1, req)
    \/ EnterQuote(1)
    \/ \E o \in ServiceOutcomes : PostCompletes(1, o)
    \/ Wake(1)
    \/ Cancel(1)
    \/ Update(1)
    \/ \E id \in Ids : RepoGet(id)
    \/ CallerEdits

CopySpec == InitQuote /\ [][NextCopy]_vars

\* the client alone: one call of get_quote with any currency codes
NextClient ==
    \/ \E src \in Codes, dst \in Codes : GetQuote(1, src, dst)
    \/ EnterQuote(1)
    \/ \E o \in Outcomes : PostCompletes(1, o)
    \/ Wake(1)
    \/ Cancel(1)

ClientSpec == InitQuote /\ [][NextClient]_vars

\* the steps the event loop, the per-attempt timeout and the timer guarantee:
\* a ready task runs, a post completes or times out, a sleep ends
FairSpec ==
    /\ QuoteSpec
    /\ WF_vars(EnterQuote(1))
    /\ WF_vars(\E o \in Outcomes : PostCompletes(1, o))
    /\ WF_vars(Wake(1))
    /\ WF_vars(Update(1))

(* ------------------------------ claims --------------------------------- *)
Started(r) == ~IsNone(obs[r].saved)
IdOf(r) == Val(task[r].payment).id
Stored(r) == payments[IdOf(r)]
Terminal(st) == st \in {SUCCEEDED, FAILED}

\* C1: once create_payment has saved the PENDING record of a request, the
\* stored record of that identifier eventually becomes SUCCEEDED or FAILED,
\* also when the request is cancelled while suspended in get_quote.
C1_NeverLeftPending ==
    \A r \in Reqs : Started(r) ~> (Started(r) /\ Terminal(Stored(r).status))

\* C2: when get_quote has failed, create_payment reports 502 only after the
\* record is stored as FAILED with error_message = str(cause), it never
\* answers 201, and a get_payment made after the 502 returns that record.
C2_Reported(r) ==
    obs[r].quote = "raised" =>
        /\ task[r].pc \in {"update_failed", "raised"}
        /\ task[r].pc = "update_failed" => IsNone(task[r].response)
        /\ task[r].pc = "raised" =>
             /\ task[r].response = Some(BadGateway)
             /\ Stored(r).status = FAILED
             /\ Stored(r).error_message = Some(Val(obs[r].raised).msg)
C2_LaterGet(r) ==
    (task[r].pc = "raised" /\ GetPayment(IdOf(r))) =>
        /\ resp'.status_code = HTTP_200_OK
        /\ Val(resp'.body).status = FAILED
        /\ Val(resp'.body).error_message = Some(Val(obs[r].raised).msg)
C2_FailedPersistedThen502 ==
    /\ [](\A r \in Reqs : C2_Reported(r))
    /\ [][\A r \in Reqs : C2_LaterGet(r)]_vars
C2_Witness ==
    \E r \in Reqs :
        /\ task[r].pc = "raised"
        /\ obs[r].posts = max_retries
        /\ resp.id = IdOf(r)
        /\ resp.status_code = HTTP_200_OK
        /\ Val(resp.body).status = FAILED

\* C3: for every stored record, status = SUCCEEDED iff fx_rate is present
\* and > 0 and payout_amount is present and equals amount * fx_rate.
C3_SucceededIffQuoted ==
    \A id \in DOMAIN payments :
        LET rec == payments[id]
        IN  (rec.status = SUCCEEDED) <=>
              /\ ~IsNone(rec.fx_rate)
              /\ FGt(Val(rec.fx_rate), Fl(0))
              /\ ~IsNone(rec.payout_amount)
              /\ FEq(Val(rec.payout_amount), FMul(rec.amount, Val(rec.fx_rate)))

\* C4: for every stored record, status = FAILED iff error_message is present
\* and fx_rate and payout_amount are absent, also when str(cause) is empty.
C4_FailedIffError ==
    \A id \in DOMAIN payments :
        LET rec == payments[id]
        IN  (rec.status = FAILED) <=>
              /\ ~IsNone(rec.error_message)
              /\ IsNone(rec.fx_rate)
              /\ IsNone(rec.payout_amount)
C4_Witness ==
    \E id \in DOMAIN payments :
        /\ payments[id].status = FAILED
        /\ payments[id].error_message = Some("")

\* C5: a record enters the store as PENDING, is never removed, and changes
\* only once, from PENDING to SUCCEEDED or FAILED; a terminal record is not
\* changed by any later step of any request.
C5_Step ==
    /\ DOMAIN payments \subseteq DOMAIN payments'
    /\ \A id \in DOMAIN payments' :
         IF id \in DOMAIN payments
         THEN payments'[id] # payments[id] =>
                /\ payments[id].status = PENDING
                /\ Terminal(payments'[id].status)
         ELSE payments'[id].status = PENDING
C5_OnlyPendingToTerminal == [][C5_Step]_vars
C5_Witness ==
    \E r1, r2 \in Reqs :
        /\ r1 # r2
        /\ task[r1].pc = "returned"
        /\ task[r2].pc = "raised"
        /\ resp.id = IdOf(r1)
        /\ resp.status_code = HTTP_200_OK
        /\ Val(resp.body).status = SUCCEEDED

\* C6: whatever the point between save and update at which get_payment runs,
\* it answers with exactly the PENDING payment that was saved or exactly the
\* terminal payment that was passed to update.
C6_GetSeesSavedOrUpdated ==
    resp.status_code = HTTP_200_OK =>
        \E r \in Reqs :
            /\ Started(r)
            /\ IdOf(r) = resp.id
            /\ \/ resp.body = obs[r].saved
               \/ (~IsNone(obs[r].updated) /\ resp.body = obs[r].updated)
C6_Witness ==
    \E r \in Reqs :
        /\ task[r].pc = "sleep"
        /\ obs[r].posts = 2
        /\ resp.id = IdOf(r)
        /\ resp.status_code = HTTP_200_OK
        /\ resp.body = obs[r].saved

\* C7: with N = max_retries >= 1 and an upstream that fails every attempt
\* in one of the listed ways, get_quote ends only by raising, after exactly
\* N posts, and what it raises is the cause of the N-th attempt.
C7_FailsAfterNWithLastCause ==
    \A r \in Reqs :
        (obs[r].allfail /\ ~IsNone(obs[r].last)) =>
            /\ obs[r].posts <= max_retries
            /\ obs[r].quote # "returned"
            /\ obs[r].quote = "raised" =>
                 /\ obs[r].posts = max_retries
                 /\ obs[r].raised = obs[r].cause
                 /\ obs[r].raised = TryAttempt(Val(obs[r].last), None, 0).last_exc
C7_Witness ==
    \E r \in Reqs :
        /\ obs[r].quote = "raised"
        /\ max_retries = 3
        /\ obs[r].posts = 3
        /\ Val(obs[r].raised).cls = "ReadTimeout"
        /\ task[r].latency_ms # 0

\* sum of 1..(n-1)
Triangle(n) == (n * (n - 1)) \div 2

\* C8: a backoff sleep is entered only after a failed attempt that is not the
\* last and the one after the k-th attempt lasts k base delays; get_quote
\* that ends at its n-th attempt has slept 1+2+...+(n-1) base delays.
C8_LinearBackoff ==
    \A r \in Reqs :
        /\ task[r].pc = "sleep" =>
             /\ IsNone(TryAttempt(Val(obs[r].last), None, 0).ret)
             /\ obs[r].posts < max_retries
             /\ task[r].sleep = obs[r].posts * BaseDelay
             /\ obs[r].slept = Triangle(obs[r].posts) * BaseDelay
        /\ task[r].pc = "post" => obs[r].slept = Triangle(obs[r].posts) * BaseDelay
        /\ obs[r].quote \in {"returned", "raised"} =>
             obs[r].slept = Triangle(obs[r].posts) * BaseDelay
C8_Witness ==
    \E r \in Reqs :
        /\ obs[r].quote = "returned"
        /\ max_retries = 3
        /\ obs[r].posts = 3
        /\ obs[r].slept = 3 * BaseDelay

\* C9: get_quote returns iff some attempt got status 200 and a positive
\* rate; it returns at the first such attempt, with that attempt's rate, and
\* no attempt follows it.
C9_ReturnsIffPositiveRate ==
    \A r \in Reqs :
        /\ obs[r].quote = "returned" =>
             /\ obs[r].good # 0
             /\ obs[r].posts = obs[r].good
             /\ Some(Val(obs[r].ret).rate) = obs[r].good_rate
        /\ obs[r].quote = "raised" => obs[r].good = 0
        /\ obs[r].good # 0 => (obs[r].posts = obs[r].good /\ obs[r].quote = "returned")

\* C10: update and get (and get_payment) on an identifier that has no record
\* fail with not-found and leave the store as it was.
C10_Step ==
    \A id \in Ids \ DOMAIN payments :
        /\ (\E p \in SamplePayments : p.id = id /\ RepoUpdate(p)) =>
              /\ call'.raised = Some(PaymentNotFound(id))
              /\ payments' = payments
        /\ RepoGet(id) =>
              /\ call'.raised = Some(PaymentNotFound(id))
              /\ IsNone(call'.value)
              /\ payments' = payments
        /\ GetPayment(id) =>
              /\ resp'.status_code = HTTP_404_NOT_FOUND
              /\ IsNone(resp'.body)
              /\ payments' = payments
C10_NotFoundLeavesStore == [][C10_Step]_vars
C10_Witness ==
    /\ call.op = "update"
    /\ ~IsNone(call.raised)
    /\ call.id \notin DOMAIN payments
    /\ DOMAIN payments # {}
    /\ resp.status_code = HTTP_404_NOT_FOUND

\* C11: no two requests have the same identifier, and from the state after
\* its save on, get on a request's identifier succeeds and returns that
\* identifier's record, whatever the payment's outcome.
C11_UniqueAndResolvable ==
    /\ \A r1, r2 \in Reqs :
         (Started(r1) /\ Started(r2) /\ r1 # r2) => IdOf(r1) # IdOf(r2)
    /\ \A r \in Reqs :
         Started(r) =>
            /\ IsNone(get(payments, IdOf(r)).raised)
            /\ Val(get(payments, IdOf(r)).value).id = IdOf(r)
            /\ Val(get(payments, IdOf(r)).value).created_at = Val(obs[r].saved).created_at
C11_Witness ==
    \E r1, r2 \in Reqs :
        /\ task[r1].pc = "raised"
        /\ task[r2].pc = "returned"
        /\ IdOf(r1) # IdOf(r2)
        /\ resp.id = IdOf(r1)
        /\ resp.status_code = HTTP_200_OK
        /\ Val(resp.body).status = FAILED

\* C12: under any interleaving of save, update and get made from several
\* threads, a call changes no record but the one under its own identifier,
\* no write is lost, and get returns the payment last written under the
\* identifier asked for (or raises when none was).
C12_Step ==
    \A th \in Threads :
        (thr[th].pc = "in" /\ thr'[th].pc = "done") =>
            /\ \A id \in Ids \ {thr[th].id} :
                 /\ id \in DOMAIN payments' <=> id \in DOMAIN payments
                 /\ id \in DOMAIN payments => payments'[id] = payments[id]
            /\ thr[th].op = "save" => thr[th].id \in DOMAIN payments'
            /\ thr[th].op = "get" =>
                 /\ thr'[th].value = written[thr[th].id]
                 /\ IsNone(thr'[th].raised) <=> ~IsNone(written[thr[th].id])
                 /\ payments' = payments
C12_Kept ==
    \A id \in Ids :
        /\ id \in DOMAIN payments <=> ~IsNone(written[id])
        /\ get(payments, id).value = written[id]
C12_NoLostWrite == [](C12_Kept) /\ [][C12_Step]_vars
C12_Witness ==
    \E t1, t2 \in Threads :
        /\ t1 # t2
        /\ thr[t1].pc = "done" /\ thr[t1].op = "update" /\ IsNone(thr[t1].raised)
        /\ thr[t2].pc = "done" /\ thr[t2].op = "get" /\ IsNone(thr[t2].raised)
        /\ thr[t1].id # thr[t2].id
        /\ Val(thr[t2].value).status = FAILED
        /\ Val(written[thr[t1].id]).status = PENDING

\* C17: the store lock is owned only by a thread that is inside the locked
\* block of save, update or get; a thread that has left the block, by its
\* end or by raising PaymentNotFound, no longer owns it; with no call
\* inside a block the lock is free; and a call waiting for the lock waits
\* only for a thread that is inside a block.
C17_LockScoped ==
    /\ lock.owner # 0 =>
         /\ lock.owner \in Threads
         /\ thr[lock.owner].pc = "in"
         /\ lock.count = 1
    /\ \A th \in Threads : thr[th].pc = "in" => lock.owner = th
    /\ (\A th \in Threads : thr[th].pc # "in") => lock = Free
    /\ \A th \in Threads :
         thr[th].pc = "wait" =>
            \/ CanAcquire(lock, th)
            \/ \E h \in Threads \ {th} : lock.owner = h /\ thr[h].pc = "in"
C17_Witness ==
    \E t1, t2 \in Threads :
        /\ thr[t1].pc = "done"
        /\ thr[t1].op = "update"
        /\ ~IsNone(thr[t1].raised)
        /\ thr[t2].pc = "in"
        /\ thr[t2].op = "get"
        /\ thr[t2].id \notin DOMAIN payments
        /\ lock.owner = t2

\* C13: every stored record has updated_at >= created_at; the two are equal
\* while the record is PENDING and updated_at is strictly later once the
\* record is SUCCEEDED or FAILED.
C13_UpdatedAfterCreated ==
    \A id \in DOMAIN payments :
        /\ payments[id].updated_at >= payments[id].created_at
        /\ payments[id].status = PENDING =>
              payments[id].updated_at = payments[id].created_at
        /\ Terminal(payments[id].status) =>
              payments[id].updated_at > payments[id].created_at

\* C14: every stored record whose status is PENDING has no payout amount,
\* no exchange rate, no error message and empty diagnostics, also while
\* the quote call is in progress and while the handler holds a terminal
\* record it has not stored yet.
C14_PendingIsBare ==
    \A id \in DOMAIN payments :
        payments[id].status = PENDING =>
            /\ IsNone(payments[id].payout_amount)
            /\ IsNone(payments[id].fx_rate)
            /\ IsNone(payments[id].error_message)
            /\ payments[id].diagnostics = Diagnostics
C14_Witness ==
    \E r \in Reqs :
        /\ task[r].pc = "update_ok"
        /\ ~IsNone(Val(task[r].payment).fx_rate)
        /\ Val(task[r].payment).diagnostics # Diagnostics
        /\ Stored(r).status = PENDING
        /\ resp.id = IdOf(r)
        /\ resp.status_code = HTTP_200_OK

\* C19: the store holds its own copy of a payment.  What create_payment
\* writes to its payment after save is not seen through get until update
\* stores it, and a caller that writes to the payment get returned leaves
\* the store as it was.
C19_UntilUpdate ==
    \A r \in Reqs :
        (Started(r) /\ IsNone(obs[r].updated)) =>
            get(payments, IdOf(r)).value = obs[r].saved
C19_Step ==
    (call.op = "get" /\ call'.op = "edited") =>
        /\ call'.value # call.value
        /\ payments' = payments
C15_DiagnosticsMatchOutcome ==
    \A r \in Reqs :
        (Started(r) /\ ~IsNone(obs[r].last)) =>
            /\ Stored(r).status = SUCCEEDED =>
                 /\ Stored(r).diagnostics.fx_latency_ms = Some(Val(obs[r].last).latency)
                 /\ IsNone(Stored(r).diagnostics.fx_error)
            /\ Stored(r).status = FAILED =>
                 /\ ~IsNone(Stored(r).diagnostics.fx_error)
                 /\ IF Val(obs[r].last).kind = "response"
                    THEN Stored(r).diagnostics.fx_latency_ms = Some(Val(obs[r].last).latency)
                    ELSE IsNone(Stored(r).diagnostics.fx_latency_ms)

\* C16: within one create_payment, the PENDING record is in the store
\* before the first quote attempt is issued and at every later attempt; the
\* one update is made after get_quote has ended, and no attempt and no
\* second update follows it.
C16_SavedBeforeQuoted ==
    \A r \in Reqs :
        /\ obs[r].posts >= 1 =>
             /\ Started(r)
             /\ IdOf(r) \in DOMAIN payments
        /\ ~IsNone(obs[r].updated) => obs[r].quote \in {"returned", "raised"}
C16_Step ==
    \A r \in Reqs :
        /\ obs'[r].posts > obs[r].posts =>
             /\ Started(r)
             /\ IdOf(r) \in DOMAIN payments
             /\ Stored(r).status = PENDING
             /\ IsNone(obs[r].updated)
             /\ obs[r].quote \in {"none", "running"}
        /\ ~IsNone(obs[r].updated) =>
             /\ obs'[r].updated = obs[r].updated
             /\ obs'[r].posts = obs[r].posts
             /\ payments'[IdOf(r)] = payments[IdOf(r)]
C16_SaveQuoteUpdateOrder == [](C16_SavedBeforeQuoted) /\ [][C16_Step]_vars
C16_Witness ==
    \E r \in Reqs :
        /\ obs[r].posts = max_retries
        /\ max_retries >= 2
        /\ obs[r].slept > 0
        /\ ~IsNone(obs[r].updated)
        /\ Stored(r).status = FAILED
        /\ task[r].pc = "raised"

\* C20: create_payment hands a payment back to its caller only with status
\* SUCCEEDED and only once update has stored it: whenever a request has
\* answered 201, the payment in the answer is the one update stored and the
\* one get returns for its identifier, and the stored record is not
\* PENDING; a request that has answered otherwise carries no payment.
C20_ReturnsOnlyStoredSuccess ==
    \A r \in Reqs :
        /\ task[r].pc = "returned" <=>
              (~IsNone(task[r].response) /\ ~IsNone(Val(task[r].response).body))
        /\ task[r].pc = "returned" =>
              /\ Val(task[r].response).status_code = HTTP_201_CREATED
              /\ Val(Val(task[r].response).body).status = SUCCEEDED
              /\ obs[r].updated = Val(task[r].response).body
              /\ get(payments, IdOf(r)).value = Val(task[r].response).body
              /\ Stored(r).status = SUCCEEDED
C20_Witness ==
    \E r \in Reqs :
        /\ task[r].pc = "returned"
        /\ obs[r].posts >= 2
        /\ resp.id = IdOf(r)
        /\ resp.status_code = HTTP_200_OK
        /\ resp.body = Val(task[r].response).body

\* C18: a call of get_quote with an empty source or destination currency
\* code raises the ValueError of the argument check before anything else:
\* it issues no post and sleeps for no backoff.
C18_EmptyCodeRejectedFirst ==
    \A r \in Reqs :
        (/\ task[r].pc # "start"
         /\ IsNone(task[r].payment)
         /\ (task[r].source_currency = "" \/ task[r].dest_currency = "")) =>
            /\ task[r].pc \in {"call", "quote_raised"}
            /\ obs[r].posts = 0
            /\ obs[r].slept = 0
            /\ task[r].sleep = 0
            /\ task[r].pc = "quote_raised" =>
                 obs[r].raised = Some(Exc("ValueError",
                                          "source_currency and dest_currency are required"))
C18_Witness ==
    \E r \in Reqs :
        /\ task[r].pc = "quote_raised"
        /\ task[r].source_currency = "USD"
        /\ task[r].dest_currency = ""
        /\ Val(obs[r].raised).cls = "ValueError"
        /\ obs[r].posts = 0

====
